---- MODULE Spec2Model ----
(***************************************************************************)
(* PyEditor: timeline composition and rendering pipeline.                  *)
(*                                                                         *)
(* Times are fixed-point numbers of ticks (TicksPerSecond ticks to the     *)
(* second), speeds are fixed-point numbers of 1/SpeedDen.  A Python None   *)
(* is the value None.  The clip an edit acts on (_current_clip) is an      *)
(* input of the edit.                                                      *)
(***************************************************************************)
EXTENDS Integers, Sequences, FiniteSets

VARIABLES
    timeline,          \* MainWindow.timeline, in the order of the visual items
    playhead_sec,      \* VisualTimeline.playhead_sec
    pending_seek_ms,   \* MainWindow._pending_seek_ms
    project_bg_music,  \* MainWindow.project_bg_music ("" for None)
    cmds,              \* the steps the last export ran, in order
    export_result,     \* "idle", or how the last export ended: "ok", "failed"
    export_env,        \* what the last export met: which command failed
    export_error,      \* the message of the error the last export raised
    output_file,       \* what the last export left at the output path
    duration_out,      \* the value duration_effective returned last
    tempo,             \* the frame of a running atempo_chain call
    ops,               \* the number of edits of the session so far
    xfade,             \* the frame of a call of _concatenate_with_transitions
    artifacts,         \* the derived-artifact fields of the clips of timeline
    jobs,              \* the workers handed to the thread pool, in order
    caches,            \* _thumbs_cache, _wave_cache, _proxy_cache by asset
    disk,              \* the files under the preview temp root
    ui                 \* the in-progress indication of the main window

editVars == <<timeline, playhead_sec, pending_seek_ms>>
exportVars == <<project_bg_music, cmds, export_result, export_env>>
\* what an export run leaves behind
exportRun == <<cmds, export_result, export_env, export_error, output_file>>
\* the preview workers and what they work on; the workers the handlers queue
\* are followed in SpecPreview only
previewVars == <<artifacts, jobs, caches, disk>>
\* what the editing, export and function-call actions leave alone
sideVars == <<xfade, previewVars, ui>>
vars == <<timeline, playhead_sec, pending_seek_ms, project_bg_music, cmds,
          export_result, export_env, export_error, output_file,
          duration_out, tempo, ops, xfade, artifacts, jobs, caches, disk, ui>>

None == 0 - 1

Max(a, b) == IF a >= b THEN a ELSE b
Min(a, b) == IF a <= b THEN a ELSE b

\* ------------------------------------------------------------ resolution
\* One tick is the 0.05 s of split_at_playhead, the smallest time the code
\* names.
TicksPerSecond == 20
\* One speed unit is the 0.05 single step of the speed spin box.
SpeedDen == 20

\* ------------------------------------------------------------- constants
\* UIConfig.MIN_CLIP_DURATION = 0.2
MIN_CLIP_DURATION == TicksPerSecond \div 5
\* the 0.2 floors of duration_effective
DurationFloor == TicksPerSecond \div 5
\* the 5.0 base of a clip whose media has no duration
DefaultBase == 5 * TicksPerSecond
\* the 0.05 edge margin of split_at_playhead
SplitEps == TicksPerSecond \div 20
\* the 0.2 of apply_trim_to_clip
TrimMin == TicksPerSecond \div 5
\* speed 1.0
SpeedOne == SpeedDen
\* the 0.1 floor of the effect preview's -t
PreviewMinDur == TicksPerSecond \div 10
\* the 5.0 the effect preview falls back to
PreviewDefault == 5 * TicksPerSecond

\* ---------------------------------------------------------------- bounds
MaxClips == 2
MaxLoad == 1
MaxOps == 5
VideoDur == 6
MaxPlayhead == 8

\* ----------------------------------------------------------------- media
\* The media library: a video with a probed duration and a still image
\* (duration None).
MediaItems ==
    <<[type |-> "video", duration |-> VideoDur],
      [type |-> "image", duration |-> None]>>

MediaIds == 1..Len(MediaItems)

\* TimelineClip.__init__
TimelineClip(m) ==
    [media |-> m, start |-> 0, end |-> None, title |-> "", lut |-> "none",
     transition |-> "none", track |-> 0, speed |-> SpeedOne]

\* the base of TimelineClip.duration_effective, before the speed scaling
duration_base(c) ==
    LET dur == MediaItems[c.media].duration
    IN IF dur = None
       THEN DefaultBase
       ELSE LET end == IF c.end # None THEN c.end ELSE dur
            IN Max(DurationFloor, end - c.start)

\* TimelineClip.duration_effective without its final floor
duration_effective_nofloor(c) ==
    LET spd == IF c.speed <= 0 THEN SpeedOne ELSE c.speed
    IN (duration_base(c) * SpeedDen) \div spd

\* TimelineClip.duration_effective
duration_effective(c) ==
    LET spd == IF c.speed <= 0 THEN SpeedOne ELSE c.speed
    IN Max(DurationFloor, (duration_base(c) * SpeedDen) \div spd)

\* the dur EffectPreviewWorker.run passes as -t
effect_preview_dur(c) ==
    LET dur == MediaItems[c.media].duration
    IN IF c.end # None
       THEN Max(PreviewMinDur, c.end - c.start)
       ELSE Max(PreviewMinDur,
                IF dur # None /\ dur # 0 THEN dur - c.start
                ELSE PreviewDefault)

\* ------------------------------------------------------------- sequencer
RECURSIVE SumDur(_, _)
\* the t accumulated over the first n clips
SumDur(tl, n) ==
    IF n = 0 THEN 0 ELSE SumDur(tl, n - 1) + duration_effective(tl[n])

RECURSIVE LocateFromInclusive(_, _, _, _)
\* the walk with a span that takes its right end in
LocateFromInclusive(tl, sec, i, t) ==
    IF i > Len(tl) THEN [idx |-> 0, local |-> 0]
    ELSE IF sec <= t + duration_effective(tl[i])
         THEN [idx |-> i, local |-> sec - t]
         ELSE LocateFromInclusive(tl, sec, i + 1, t + duration_effective(tl[i]))

RECURSIVE LocateFrom(_, _, _, _)
\* the loop of _clip_at_global_time from item i on, t accumulated so far
LocateFrom(tl, sec, i, t) ==
    IF i > Len(tl) THEN [idx |-> 0, local |-> 0]
    ELSE IF sec < t + duration_effective(tl[i])
         THEN [idx |-> i, local |-> sec - t]
         ELSE LocateFrom(tl, sec, i + 1, t + duration_effective(tl[i]))

\* MainWindow._clip_at_global_time: idx = 0 stands for "return None"
clip_at_global_time(tl, sec) == LocateFrom(tl, sec, 1, 0)

\* the t accumulated up to and with the clip at index i
cumulative_end_of(tl, i) ==
    IF i \in 1..Len(tl) THEN SumDur(tl, i) ELSE 0

\* MainWindow._cumulative_start_of, of the clip at index i; i = 0 stands for
\* a clip that no item of the timeline holds
cumulative_start_of(tl, i) ==
    IF i \in 1..Len(tl) THEN SumDur(tl, i - 1) ELSE 0

\* ---------------------------------------------------------------- repack
\* VisualTimeline.repack_by_order on items [clip, x]: a stable sort by x.
RECURSIVE ByX(_, _)
ByX(items, k) ==
    IF k < 0 THEN <<>>
    ELSE ByX(items, k - 1) \o SelectSeq(items, LAMBDA it : it.x = k)

repack_by_order(items) ==
    LET sorted == ByX(items, Len(items))
    IN [i \in 1..Len(sorted) |-> sorted[i].clip]

\* The items of the timeline as the last repack left them: the first at
\* x = 0, every later one further right (an item is at least 120 px wide).
\* x is the rank of the position.
Placed(tl) == [i \in 1..Len(tl) |-> [clip |-> tl[i], x |-> i - 1]]

\* A ClipGraphicsItem that was never positioned is at x = 0.
Unplaced(c) == [clip |-> c, x |-> 0]

\* ---------------------------------------------------------------- inputs
\* What the user can type into the trim fields (an empty end field is None).
TrimStartInputs == {0, 2, VideoDur - 2}
TrimEndInputs == {None, 3, VideoDur + 2}
\* How far a trim handle is dragged.
DragDeltas == {0 - 3, 3}
\* Values of the speed spin box (range 0.25 .. 4.0): 0.5, 1.0, 2.0
SpinSpeeds == {SpeedDen \div 2, SpeedDen, 2 * SpeedDen}
\* The value of the speed spin box before an export: 2.0
ExportSpeeds == {2 * SpeedDen}
\* Where the playhead can be put.
PlayheadInputs == 0..MaxPlayhead
\* The "speed" of a clip record of a project file: a number, or a value
\* float() raises on.
LoadSpeedInputs ==
    {[num |-> TRUE, v |-> v] : v \in {0 - SpeedDen, 0, SpeedDen}}
        \cup {[num |-> FALSE, v |-> 0]}
\* A clip record as to_dict writes it for a clip that was just added.
DefaultRecord ==
    [media |-> 1, start |-> 0, end |-> None, title |-> "", lut |-> "none",
     transition |-> "none", track |-> 0, speed |-> [num |-> TRUE, v |-> SpeedOne]]
\* The clip records of a project file: records that differ from DefaultRecord
\* in one field; media = None is a media_path that no longer exists.
LoadRecords ==
    {[DefaultRecord EXCEPT !.media = m] : m \in MediaIds \cup {None}}
        \cup {[DefaultRecord EXCEPT !.end = e] : e \in {2, VideoDur + 2}}
        \cup {[DefaultRecord EXCEPT !.transition = t] : t \in {"crossfade"}}
        \cup {[DefaultRecord EXCEPT !.track = k] : k \in {1}}
        \cup {[DefaultRecord EXCEPT !.speed = v] : v \in LoadSpeedInputs}
\* The "bg_music" of a project file, and what the music file dialog returns;
\* "" is no music (None).
MusicInputs == {"", "music.mp3"}

\* What run_cmd returns as stderr for a command that fails: the text of the
\* tool, or "Command timeout".
StderrInputs == {"Invalid data found", "Command timeout"}
\* An export in which every command returns 0 and os.replace succeeds.
NoFailure == [fail_at |-> 0, replace_ok |-> TRUE, stderr |-> "", partial |-> FALSE]
\* No error was raised.
NoError == [raised |-> FALSE, stage |-> "", stderr |-> ""]

RECURSIVE SeqsUpTo(_, _)
SeqsUpTo(S, n) ==
    IF n = 0 THEN {<<>>}
    ELSE LET shorter == SeqsUpTo(S, n - 1)
         IN shorter \cup {Append(q, x) : q \in {r \in shorter : Len(r) = n - 1}, x \in S}

\* ------------------------------------------------------------------ init
\* MainWindow.__init__: an empty timeline, no music, nothing exported.
\* a path that is not set (None, "" or an empty list)
NoPath == <<>>
\* the derived-artifact fields of a TimelineClip that was just created; id
\* tells the clip objects apart
NoArtifacts(id) ==
    [id |-> id, preview_dir |-> None, thumb_paths |-> NoPath,
     waveform_path |-> NoPath, proxy_path |-> NoPath,
     effect_preview_path |-> NoPath]
\* the three caches of MainWindow.__init__, without entries, and a preview
\* temp root without files
NoPreviews ==
    [caches |-> [thumbs |-> [m \in MediaIds |-> NoPath],
                 wave |-> [m \in MediaIds |-> NoPath],
                 proxy |-> [m \in MediaIds |-> NoPath]],
     disk |-> [p \in {} |-> <<>>]]

\* no call of _concatenate_with_transitions is running
XfadeIdle == [pc |-> "idle", clips |-> <<>>, i |-> 0, current |-> 0]

Init ==
    /\ timeline = <<>>
    /\ playhead_sec = 0
    /\ pending_seek_ms = 0
    /\ project_bg_music = ""
    /\ cmds = <<>>
    /\ export_result = "idle"
    /\ export_env = NoFailure
    /\ export_error = NoError
    /\ output_file = "untouched"
    /\ duration_out = None
    /\ tempo = [pc |-> "idle", v |-> 0, remaining |-> 0, chain |-> <<>>]
    /\ ops = 0
    /\ xfade = XfadeIdle
    /\ artifacts = [i \in 1..Len(timeline) |-> NoArtifacts(i)]
    /\ jobs = <<>>
    /\ caches = NoPreviews.caches
    /\ disk = NoPreviews.disk
    /\ ui = [processing |-> {}, progress |-> FALSE, add_enabled |-> TRUE,
             delivered |-> <<>>]

\* --------------------------------------------------------------- actions
\* MainWindow._append_media_path_to_timeline
append_media_path_to_timeline(m) ==
    /\ Len(timeline) < MaxClips
    /\ timeline' = Append(timeline, TimelineClip(m))
    /\ UNCHANGED <<playhead_sec, pending_seek_ms, project_bg_music>>

\* the end apply_trim_to_clip stores
apply_trim_end(dur, start, end_in) ==
    LET end == IF end_in = None /\ dur # None THEN dur ELSE end_in
    IN IF end # None
       THEN Max(start + TrimMin,
                Min(end, IF dur # None /\ dur # 0 THEN dur ELSE end))
       ELSE None

\* MainWindow.apply_trim_to_clip
apply_trim_to_clip(i, start_in, end_in) ==
    LET clip == timeline[i]
        dur == MediaItems[clip.media].duration
        start == Max(0, start_in)
        trimmed == [clip EXCEPT !.start = start,
                                !.end = apply_trim_end(dur, start, end_in)]
    IN /\ timeline' = repack_by_order(Placed([timeline EXCEPT ![i] = trimmed]))
       /\ UNCHANGED <<playhead_sec, pending_seek_ms, project_bg_music>>

\* ClipGraphicsItem._handle_trim_left
handle_trim_left(clip, secs_delta) ==
    LET dur == MediaItems[clip.media].duration
        new_start == Max(0, clip.start + secs_delta)
        base_end == IF clip.end # None THEN clip.end
                    ELSE IF dur # None THEN dur ELSE 0
    IN [clip EXCEPT !.start =
           IF base_end - new_start < MIN_CLIP_DURATION
           THEN Max(0, base_end - MIN_CLIP_DURATION)
           ELSE new_start]

\* ClipGraphicsItem._handle_trim_right
handle_trim_right(clip, secs_delta) ==
    LET dur == MediaItems[clip.media].duration
        base_end_orig == IF clip.end # None THEN clip.end
                         ELSE IF dur # None THEN dur ELSE 0
        new_end0 == base_end_orig + secs_delta
        max_end == IF dur # None /\ dur # 0 THEN dur ELSE new_end0
        new_end == Min(max_end, new_end0)
    IN [clip EXCEPT !.end =
           IF new_end - clip.start < MIN_CLIP_DURATION
           THEN clip.start + MIN_CLIP_DURATION
           ELSE new_end]

\* A drag of the left handle: mousePressEvent, mouseMoveEvent,
\* mouseReleaseEvent
drag_trim_left(i, secs_delta) ==
    /\ timeline' = repack_by_order(Placed(
           [timeline EXCEPT ![i] = handle_trim_left(timeline[i], secs_delta)]))
    /\ UNCHANGED <<playhead_sec, pending_seek_ms, project_bg_music>>

\* A drag of the right handle
drag_trim_right(i, secs_delta) ==
    /\ timeline' = repack_by_order(Placed(
           [timeline EXCEPT ![i] = handle_trim_right(timeline[i], secs_delta)]))
    /\ UNCHANGED <<playhead_sec, pending_seek_ms, project_bg_music>>

\* MainWindow.apply_speed_to_clip
apply_speed_to_clip(i, val_in) ==
    LET val == IF val_in <= 0 THEN SpeedOne ELSE val_in
    IN /\ timeline' = repack_by_order(Placed(
              [timeline EXCEPT ![i] = [@ EXCEPT !.speed = val]]))
       /\ UNCHANGED <<playhead_sec, pending_seek_ms, project_bg_music>>

\* float(getattr(clip, 'speed', 1.0) or 1.0)
speed_or_one(spd) == IF spd = 0 THEN SpeedOne ELSE spd

\* MainWindow.duplicate_selected_clip
duplicate_selected_clip(i) ==
    LET clip == timeline[i]
        new_clip == [TimelineClip(clip.media) EXCEPT
                        !.start = clip.start, !.end = clip.end,
                        !.title = clip.title, !.lut = clip.lut,
                        !.transition = clip.transition,
                        !.speed = speed_or_one(clip.speed)]
        placed == Placed(timeline)
        items == SubSeq(placed, 1, i) \o <<Unplaced(new_clip)>>
                     \o SubSeq(placed, i + 1, Len(placed))
    IN /\ timeline' = repack_by_order(items)
       /\ UNCHANGED <<playhead_sec, pending_seek_ms, project_bg_music>>

\* MainWindow.remove_selected_clip
remove_selected_clip(i) ==
    LET placed == Placed(timeline)
        items == SubSeq(placed, 1, i - 1) \o SubSeq(placed, i + 1, Len(placed))
    IN /\ timeline' = repack_by_order(items)
       /\ UNCHANGED <<playhead_sec, pending_seek_ms, project_bg_music>>

\* the raw media time split_at_playhead cuts at
split_abs(clip, local_sec) == clip.start + local_sec

\* the left clip split_at_playhead builds
split_left(clip, local_sec) ==
    [TimelineClip(clip.media) EXCEPT
        !.start = clip.start, !.end = split_abs(clip, local_sec),
        !.title = clip.title, !.lut = clip.lut, !.transition = "none"]

\* the right clip split_at_playhead builds
split_right(clip, local_sec) ==
    [TimelineClip(clip.media) EXCEPT
        !.start = split_abs(clip, local_sec), !.end = clip.end,
        !.title = clip.title, !.lut = clip.lut,
        !.transition = clip.transition]

\* split_at_playhead with a margin at the left edge only
split_accepts_no_right_margin(tl, gsec) ==
    LET target == clip_at_global_time(tl, gsec)
    IN /\ target.idx # 0
       /\ ~ (\/ target.local <= SplitEps
             \/ target.local >= duration_effective(tl[target.idx]))

\* whether split_at_playhead gets past its early returns
split_accepts(tl, gsec) ==
    LET target == clip_at_global_time(tl, gsec)
    IN /\ target.idx # 0
       /\ ~ (\/ target.local <= SplitEps
             \/ target.local >= duration_effective(tl[target.idx]) - SplitEps)

\* MainWindow.split_at_playhead, past its early returns
split_at_playhead ==
    LET target == clip_at_global_time(timeline, playhead_sec)
        clip == timeline[target.idx]
        placed == Placed(timeline)
        new_items == SubSeq(placed, 1, target.idx - 1)
                       \o <<Unplaced(split_left(clip, target.local)),
                            Unplaced(split_right(clip, target.local))>>
                       \o SubSeq(placed, target.idx + 1, Len(placed))
    IN /\ split_accepts(timeline, playhead_sec)
       /\ timeline' = repack_by_order(new_items)
       /\ UNCHANGED <<playhead_sec, pending_seek_ms, project_bg_music>>

\* the position _on_scrubbed asks the player to seek to, in milliseconds
scrub_seek_ms(clip, local_sec) ==
    LET spd == speed_or_one(clip.speed)
        rate == IF spd > 0 THEN spd ELSE SpeedOne
    IN Max(0, ((clip.start * SpeedDen + local_sec * rate) * 1000)
                  \div (SpeedDen * TicksPerSecond))

\* A click on the ruler: VisualTimeline.set_playhead_x, then
\* MainWindow._on_scrubbed
on_scrubbed(seconds) ==
    LET target == clip_at_global_time(timeline, seconds)
        clip == timeline[target.idx]
    IN /\ playhead_sec' = Max(0, seconds)
       /\ pending_seek_ms' =
              IF target.idx # 0
                 /\ MediaItems[clip.media].type \in {"video", "audio"}
              THEN scrub_seek_ms(clip, target.local)
              ELSE pending_seek_ms
       /\ UNCHANGED <<timeline, project_bg_music>>

\* TimelineClip.from_dict; None when the media is not found
from_dict(data) ==
    IF data.media = None THEN None
    ELSE [TimelineClip(data.media) EXCEPT
             !.start = data.start, !.end = data.end,
             !.title = data.title, !.track = data.track, !.lut = data.lut,
             !.transition = data.transition,
             !.speed = IF data.speed.num THEN data.speed.v ELSE SpeedOne]

RECURSIVE LoadedClips(_)
LoadedClips(records) ==
    IF records = <<>> THEN <<>>
    ELSE (IF Head(records).media = None THEN <<>>
          ELSE <<from_dict(Head(records))>>) \o LoadedClips(Tail(records))

\* MainWindow.load_project
load_project(records, bg_music) ==
    /\ timeline' = LoadedClips(records)
    /\ playhead_sec' = 0
    /\ project_bg_music' = bg_music
    /\ UNCHANGED pending_seek_ms

\* ------------------------------------------------------------ atempo_chain
\* f"atempo={remaining:.6f}" prints six decimals.
FormatDecimals == 6
\* A tempo ratio is a fixed-point number of 1/80 of the last printed decimal:
\* a ratio with seven decimals can be halved three times exactly.
TempoOne == 80 * (10 ^ FormatDecimals)
\* the last printed decimal
FmtUnit == TempoOne \div (10 ^ FormatDecimals)
\* the ratio n * 10^-7
E7(n) == n * (TempoOne \div (10 ^ (FormatDecimals + 1)))
\* the 2.0 and the 0.5 of atempo_chain
AtempoMax == 2 * TempoOne
AtempoMin == TempoOne \div 2

\* f"{remaining:.6f}": the nearest ratio of six decimals
Fmt6(r) ==
    LET q == r \div FmtUnit
        rest == r % FmtUnit
    IN IF 2 * rest > FmtUnit \/ (2 * rest = FmtUnit /\ q % 2 = 1)
       THEN (q + 1) * FmtUnit
       ELSE q * FmtUnit

\* The frame of atempo_chain(v) on entry
atempo_enter(v) ==
    [pc |-> "loop_hi", v |-> v,
     remaining |-> IF v <= 0 THEN TempoOne ELSE v, chain |-> <<>>]

\* One step of atempo_chain whose first loop runs while remaining > 4.0
atempo_step_wide(f) ==
    IF f.pc = "loop_hi"
    THEN IF f.remaining > 2 * AtempoMax
         THEN [f EXCEPT !.chain = Append(@, AtempoMax),
                        !.remaining = @ \div 2]
         ELSE [f EXCEPT !.pc = "loop_lo"]
    ELSE IF f.pc = "loop_lo"
    THEN IF f.remaining < AtempoMin
         THEN [f EXCEPT !.chain = Append(@, AtempoMin),
                        !.remaining = @ * 2]
         ELSE [f EXCEPT !.pc = "emit"]
    ELSE [f EXCEPT !.chain = Append(@, Fmt6(f.remaining)), !.pc = "done"]

\* One step of atempo_chain: an iteration of either loop, a loop exit, or
\* the final append.
atempo_step(f) ==
    IF f.pc = "loop_hi"
    THEN IF f.remaining > AtempoMax
         THEN [f EXCEPT !.chain = Append(@, AtempoMax),
                        !.remaining = @ \div 2]
         ELSE [f EXCEPT !.pc = "loop_lo"]
    ELSE IF f.pc = "loop_lo"
    THEN IF f.remaining < AtempoMin
         THEN [f EXCEPT !.chain = Append(@, AtempoMin),
                        !.remaining = @ * 2]
         ELSE [f EXCEPT !.pc = "emit"]
    ELSE [f EXCEPT !.chain = Append(@, Fmt6(f.remaining)), !.pc = "done"]

RECURSIVE atempo_run(_)
atempo_run(f) == IF f.pc = "done" THEN f.chain ELSE atempo_run(atempo_step(f))

\* atempo_chain(v): the ratios of the stages it joins with ","
atempo_chain(v) == atempo_run(atempo_enter(v))

\* the clip speed spd as a tempo ratio
speed_as_tempo(spd) == spd * (TempoOne \div SpeedDen)

\* ---------------------------------------------------------------- export
\* The LUT files of lut_dir.
LutFiles == {"warm.cube"}
\* Entries of the transition combo box.
TransitionInputs == {"none", "crossfade", "fade", "wipeleft"}

\* the -ss of _render_single_clip, None when it passes none
render_ss(clip) ==
    IF clip.start # None /\ clip.start # 0 /\ clip.start > 0
    THEN clip.start ELSE None

\* the -t of _render_single_clip, None when it passes none
render_t(clip) ==
    IF clip.end # None /\ clip.end # 0 /\ clip.end > clip.start
    THEN clip.end - clip.start ELSE None

\* the -vf stages of _render_single_clip
render_vf(clip) ==
    (IF clip.lut # "" /\ clip.lut # "none" /\ clip.lut \in LutFiles
     THEN <<[stage |-> "lut3d", arg |-> clip.lut]>> ELSE <<>>)
    \o (IF clip.title # ""
        THEN <<[stage |-> "drawtext", arg |-> clip.title]>> ELSE <<>>)
    \o (IF speed_or_one(clip.speed) # SpeedOne
        THEN <<[stage |-> "setpts", arg |-> speed_or_one(clip.speed)]>>
        ELSE <<>>)

\* the -af stages of _render_single_clip
render_af(clip) ==
    IF speed_or_one(clip.speed) # SpeedOne
    THEN atempo_chain(speed_as_tempo(speed_or_one(clip.speed)))
    ELSE <<>>

\* the file _render_all_clips renders clip idx (from 0) to
clip_file(idx) == <<"clip", idx>>

\* the command of _render_single_clip
render_cmd(idx, clip) ==
    [tool |-> "ffmpeg", kind |-> "render", src |-> clip.media,
     ss |-> render_ss(clip), t |-> render_t(clip),
     vf |-> render_vf(clip), af |-> render_af(clip),
     inputs |-> <<>>, style |-> "", out |-> clip_file(idx)]

\* the commands of _render_all_clips
render_all_clips(tl) == [i \in 1..Len(tl) |-> render_cmd(i - 1, tl[i])]

\* the command of _concatenate_simple
concatenate_simple(tl) ==
    <<[tool |-> "ffmpeg", kind |-> "concat_demux", src |-> None,
       ss |-> None, t |-> None, vf |-> <<>>, af |-> <<>>,
       inputs |-> [i \in 1..Len(tl) |-> clip_file(i - 1)],
       style |-> "", out |-> <<"concatenated", 0>>]>>

\* a step that joins the renders of clip i - 1 and clip i
transition_cmd_of_renders(tl, i) ==
    LET tr0 == IF tl[i].transition = "" THEN "none" ELSE tl[i].transition
        tr == IF tr0 = "crossfade" THEN "fade" ELSE tr0
    IN [tool |-> "ffmpeg",
        kind |-> IF tr = "none" THEN "concat_filter" ELSE "xfade",
        src |-> None, ss |-> None, t |-> None, vf |-> <<>>, af |-> <<>>,
        inputs |-> <<clip_file(i - 1), clip_file(i)>>,
        style |-> IF tr = "none" THEN "" ELSE tr,
        out |-> <<"xfade", i - 1>>]

\* step i of the loop of _concatenate_with_transitions (i from 1)
transition_cmd(tl, i) ==
    LET tr0 == IF tl[i].transition = "" THEN "none" ELSE tl[i].transition
        tr == IF tr0 = "crossfade" THEN "fade" ELSE tr0
        current == IF i = 1 THEN clip_file(0) ELSE <<"xfade", i - 2>>
    IN [tool |-> "ffmpeg",
        kind |-> IF tr = "none" THEN "concat_filter" ELSE "xfade",
        src |-> None, ss |-> None, t |-> None, vf |-> <<>>, af |-> <<>>,
        inputs |-> <<current, clip_file(i)>>,
        style |-> IF tr = "none" THEN "" ELSE tr,
        out |-> <<"xfade", i - 1>>]

\* the commands of _concatenate_with_transitions
concatenate_with_transitions(tl) ==
    [i \in 1..(Len(tl) - 1) |-> transition_cmd(tl, i)]

\* FFmpegConfig.CROSSFADE_DURATION, 1.0 s
CROSSFADE_DURATION == TicksPerSecond
\* the offset option of the xfade filter in the transition command, 1 s
XfadeOffset == TicksPerSecond

\* The length of the video the command of a transition step writes, from the
\* lengths a and b of its two inputs. The concat filter plays the second
\* input after the first. The xfade filter plays the first input up to
\* offset and starts the second input there, blending for duration.
transition_out(a, b, tr) ==
    IF tr = "none" THEN a + b ELSE XfadeOffset + b

\* the transition name a step uses for the clip before the joint
transition_name(transition) ==
    LET tr0 == IF transition = "" THEN "none" ELSE transition
    IN IF tr0 = "crossfade" THEN "fade" ELSE tr0

\* _concatenate_with_transitions(clips) is entered: current = clips[0]
xfade_enter(clips) ==
    [pc |-> "loop", clips |-> clips, i |-> 1, current |-> clips[1].len]

\* one iteration of the loop of _concatenate_with_transitions (i from 1)
xfade_step(f) ==
    LET tr == transition_name(f.clips[f.i].transition)
        next_clip == f.clips[f.i + 1]
    IN [f EXCEPT !.current = transition_out(f.current, next_clip.len, tr),
                 !.i = f.i + 1,
                 !.pc = IF f.i + 1 < Len(f.clips) THEN "loop" ELSE "done"]

\* use_transitions of export
use_transitions(tl) ==
    \E i \in 1..Len(tl) : tl[i].transition = "crossfade"

\* the file the assembly of export leaves
final_video(tl) ==
    IF use_transitions(tl)
    THEN IF Len(tl) = 1 THEN clip_file(0) ELSE <<"xfade", Len(tl) - 2>>
    ELSE <<"concatenated", 0>>

\* the two commands of _add_background_music
add_background_music(tl, bg_music) ==
    <<[tool |-> "ffmpeg", kind |-> "music_volume", src |-> None,
       ss |-> None, t |-> None, vf |-> <<>>, af |-> <<>>,
       inputs |-> <<<<bg_music, 0>>>>, style |-> "", out |-> <<"bg", 0>>],
      [tool |-> "ffmpeg", kind |-> "music_mix", src |-> None,
       ss |-> None, t |-> None, vf |-> <<>>, af |-> <<>>,
       inputs |-> <<final_video(tl), <<"bg", 0>>>>, style |-> "",
       out |-> <<"OUTPUT", 0>>]>>

\* the os.replace of _copy_to_output
replace_step(tl) ==
    [tool |-> "os.replace", kind |-> "replace", src |-> None,
     ss |-> None, t |-> None, vf |-> <<>>, af |-> <<>>,
     inputs |-> <<final_video(tl)>>, style |-> "", out |-> <<"OUTPUT", 0>>]

\* the fallback command of _copy_to_output
copy_cmd(tl) ==
    [tool |-> "ffmpeg", kind |-> "copy", src |-> None,
     ss |-> None, t |-> None, vf |-> <<>>, af |-> <<>>,
     inputs |-> <<final_video(tl)>>, style |-> "", out |-> <<"OUTPUT", 0>>]

\* The commands of an export that processes the music before it assembles
\* the clips.
export_plan_music_first(tl, bg_music) ==
    render_all_clips(tl)
    \o (IF bg_music # "" THEN add_background_music(tl, bg_music) ELSE <<>>)
    \o (IF use_transitions(tl) THEN concatenate_with_transitions(tl)
        ELSE concatenate_simple(tl))

\* The commands export issues up to its finalization when none fails.
export_plan(tl, bg_music) ==
    render_all_clips(tl)
    \o (IF use_transitions(tl) THEN concatenate_with_transitions(tl)
        ELSE concatenate_simple(tl))
    \o (IF bg_music # "" THEN add_background_music(tl, bg_music) ELSE <<>>)

\* The steps of an export that goes on after a command that failed.
export_steps_keep_going(tl, bg_music, env) ==
    LET plan == export_plan(tl, bg_music)
    IN IF bg_music # "" THEN plan
       ELSE IF env.replace_ok THEN Append(plan, replace_step(tl))
       ELSE plan \o <<replace_step(tl), copy_cmd(tl)>>

\* The steps ProjectExporter.export runs when the fail_at-th command it
\* issues returns a non-zero code (0: none does) and os.replace succeeds
\* or not.
export_steps(tl, bg_music, env) ==
    LET plan == export_plan(tl, bg_music)
    IN IF env.fail_at \in 1..Len(plan) THEN SubSeq(plan, 1, env.fail_at)
       ELSE IF bg_music # "" THEN plan
       ELSE IF env.replace_ok THEN Append(plan, replace_step(tl))
       ELSE plan \o <<replace_step(tl), copy_cmd(tl)>>

\* whether ProjectExporter.export raises
export_fails(tl, bg_music, env) ==
    LET plan == export_plan(tl, bg_music)
    IN \/ env.fail_at \in 1..Len(plan)
       \/ bg_music = "" /\ ~ env.replace_ok /\ env.fail_at = Len(plan) + 1

\* the message of the RuntimeError a failing command of the kind raises
stage_error(kind) ==
    IF kind = "render" THEN "Failed to render clip"
    ELSE IF kind = "concat_demux" THEN "Failed to concatenate clips"
    ELSE IF kind \in {"concat_filter", "xfade"} THEN "Failed transition step"
    ELSE IF kind = "music_volume" THEN "Failed to process music"
    ELSE IF kind = "music_mix" THEN "Failed to mix background music"
    ELSE "Failed to produce final output"

\* the RuntimeError("Export failed: ...") ProjectExporter.export raises
export_raises(tl, bg_music, env) ==
    IF export_fails(tl, bg_music, env)
    THEN LET steps == export_steps(tl, bg_music, env)
         IN [raised |-> TRUE, stage |-> stage_error(steps[Len(steps)].kind),
             stderr |-> env.stderr]
    ELSE NoError

\* What the steps of an export leave at output_path: a command that fails
\* may have created its output file before it failed (env.partial);
\* os.replace moves the file or leaves the path alone.
export_output(tl, bg_music, env) ==
    LET steps == export_steps(tl, bg_music, env)
        last == steps[Len(steps)]
    IN IF steps = <<>> \/ last.out # <<"OUTPUT", 0>> THEN "untouched"
       ELSE IF ~ export_fails(tl, bg_music, env) THEN "complete"
       ELSE IF env.partial THEN "partial"
       ELSE "untouched"

\* What an export can meet: no failure, or the fail_at-th command failing
\* with a stderr text.
ExportEnvs(tl, bg_music) ==
    [fail_at : {0}, replace_ok : BOOLEAN, stderr : {""}, partial : {FALSE}]
        \cup [fail_at : 1..(Len(export_plan(tl, bg_music)) + 1),
              replace_ok : BOOLEAN, stderr : StderrInputs, partial : BOOLEAN]

\* MainWindow.export_project, up to its message box
export_project(env) ==
    /\ timeline # <<>>
    /\ export_result = "idle"
    /\ cmds' = export_steps(timeline, project_bg_music, env)
    /\ export_result' =
           IF export_fails(timeline, project_bg_music, env)
           THEN "failed" ELSE "ok"
    /\ export_env' = env
    /\ export_error' = export_raises(timeline, project_bg_music, env)
    /\ output_file' = export_output(timeline, project_bg_music, env)
    /\ UNCHANGED <<timeline, playhead_sec, pending_seek_ms, project_bg_music>>

\* The user closes the message box export_project ends with.
export_dismissed ==
    /\ export_result # "idle"
    /\ export_result' = "idle"
    /\ cmds' = <<>>
    /\ export_env' = NoFailure
    /\ export_error' = NoError
    /\ output_file' = "untouched"
    /\ UNCHANGED <<timeline, playhead_sec, pending_seek_ms, project_bg_music>>

\* MainWindow.set_transition_for_selected
set_transition_for_selected(i, transition) ==
    /\ timeline' = [timeline EXCEPT ![i] = [@ EXCEPT !.transition = transition]]
    /\ UNCHANGED <<playhead_sec, pending_seek_ms, project_bg_music>>

\* MainWindow.choose_bg_music
choose_bg_music(path) ==
    /\ project_bg_music' = path
    /\ UNCHANGED <<timeline, playhead_sec, pending_seek_ms>>

\* -------------------------------------------------- calls of the functions
\* Clip states duration_effective is called on.
MaxRawTime == 8
DurationClips ==
    {[TimelineClip(m) EXCEPT !.start = s, !.end = e, !.speed = v] :
        m \in MediaIds, s \in 0..MaxRawTime, e \in {None} \cup 0..MaxRawTime,
        v \in {0 - SpeedDen, 0, SpeedDen \div 4, SpeedDen \div 2, SpeedDen,
               2 * SpeedDen, 4 * SpeedDen}}

\* A clip in any state, before duration_effective is called on it.
InitDuration ==
    /\ timeline \in {<<c>> : c \in DurationClips}
    /\ playhead_sec = 0
    /\ pending_seek_ms = 0
    /\ project_bg_music = ""
    /\ cmds = <<>>
    /\ export_result = "idle"
    /\ export_env = NoFailure
    /\ export_error = NoError
    /\ output_file = "untouched"
    /\ duration_out = None
    /\ tempo = [pc |-> "idle", v |-> 0, remaining |-> 0, chain |-> <<>>]
    /\ ops = 0
    /\ xfade = XfadeIdle
    /\ artifacts = [i \in 1..Len(timeline) |-> NoArtifacts(i)]
    /\ jobs = <<>>
    /\ caches = NoPreviews.caches
    /\ disk = NoPreviews.disk
    /\ ui = [processing |-> {}, progress |-> FALSE, add_enabled |-> TRUE,
             delivered |-> <<>>]

\* Timelines the sequencer functions and the export are called on: up to
\* MaxLocateClips clips of effective durations 0.30 s, 0.20 s (a 0.10 s
\* window, floored), 0.60 s (speed 0.5) and 0.30 s (speed -1.0 of a project
\* file, taken as 1.0), and a clip with a crossfade to its successor.
MaxLocateClips == 3
LocateClips ==
    {TimelineClip(1),
     [TimelineClip(1) EXCEPT !.end = 2],
     [TimelineClip(1) EXCEPT !.speed = SpeedDen \div 2],
     [TimelineClip(1) EXCEPT !.speed = 0 - SpeedDen],
     [TimelineClip(1) EXCEPT !.transition = "crossfade"]}

\* A timeline in any of these states, the playhead at 0.
InitLocate ==
    /\ timeline \in SeqsUpTo(LocateClips, MaxLocateClips)
    /\ playhead_sec = 0
    /\ pending_seek_ms = 0
    /\ project_bg_music = ""
    /\ cmds = <<>>
    /\ export_result = "idle"
    /\ export_env = NoFailure
    /\ export_error = NoError
    /\ output_file = "untouched"
    /\ duration_out = None
    /\ tempo = [pc |-> "idle", v |-> 0, remaining |-> 0, chain |-> <<>>]
    /\ ops = 0
    /\ xfade = XfadeIdle
    /\ artifacts = [i \in 1..Len(timeline) |-> NoArtifacts(i)]
    /\ jobs = <<>>
    /\ caches = NoPreviews.caches
    /\ disk = NoPreviews.disk
    /\ ui = [processing |-> {}, progress |-> FALSE, add_enabled |-> TRUE,
             delivered |-> <<>>]

\* MainWindow.seek_to_start_of_selected_clip, the clip at index i selected:
\* the playhead goes to _cumulative_start_of(clip)
seek_to_start_of_selected_clip(i) ==
    /\ playhead_sec' = Max(0, cumulative_start_of(timeline, i))
    /\ UNCHANGED <<timeline, pending_seek_ms, project_bg_music>>

\* A call of timeline[1].duration_effective()
call_duration_effective ==
    /\ duration_out = None
    /\ duration_out' = duration_effective(timeline[1])
    /\ UNCHANGED <<timeline, playhead_sec, pending_seek_ms, project_bg_music,
                   exportRun, tempo, ops, sideVars>>

\* Speeds atempo_chain is called with: the values of the speed spin box
\* (0.25 to 4.0 in steps of 0.05) and speeds of a project file.
TempoInputs ==
    {E7(2500000 + k * 500000) : k \in 0..75}
        \cup {E7(n) : n \in {0 - 20000000, 0, 1000000, 2000000, 3333333,
                             12345678, 50000000, 80000000}}

\* atempo_chain(v) is entered
atempo_call(v) ==
    /\ tempo.pc = "idle"
    /\ tempo' = atempo_enter(v)
    /\ UNCHANGED <<timeline, playhead_sec, pending_seek_ms, project_bg_music,
                   exportRun, duration_out, ops, sideVars>>

\* atempo_chain takes a step
atempo_iterate ==
    /\ tempo.pc \in {"loop_hi", "loop_lo", "emit"}
    /\ tempo' = atempo_step(tempo)
    /\ UNCHANGED <<timeline, playhead_sec, pending_seek_ms, project_bg_music,
                   exportRun, duration_out, ops, sideVars>>

\* atempo_chain returns
atempo_return ==
    /\ tempo.pc = "done"
    /\ tempo' = [pc |-> "idle", v |-> 0, remaining |-> 0, chain |-> <<>>]
    /\ UNCHANGED <<timeline, playhead_sec, pending_seek_ms, project_bg_music,
                   exportRun, duration_out, ops, sideVars>>

\* Lengths of rendered clips a transition chain is built from: 2 s to 5 s,
\* none shorter than offset + duration of the xfade filter.
MaxChain == 3
RenderedClips ==
    [len : {2 * TicksPerSecond, 3 * TicksPerSecond, 5 * TicksPerSecond},
     transition : {"none", "crossfade", "wipeleft"}]

\* _concatenate_with_transitions is called on the rendered clips of a
\* timeline of two clips or more
concatenate_call(clips) ==
    /\ xfade.pc = "idle"
    /\ xfade' = xfade_enter(clips)
    /\ UNCHANGED <<editVars, project_bg_music, exportRun, duration_out, tempo,
                   ops, previewVars, ui>>

\* the loop of _concatenate_with_transitions runs one transition step
concatenate_iterate ==
    /\ xfade.pc = "loop"
    /\ xfade' = xfade_step(xfade)
    /\ UNCHANGED <<editVars, project_bg_music, exportRun, duration_out, tempo,
                   ops, previewVars, ui>>

\* _concatenate_with_transitions returns current
concatenate_return ==
    /\ xfade.pc = "done"
    /\ xfade' = XfadeIdle
    /\ UNCHANGED <<editVars, project_bg_music, exportRun, duration_out, tempo,
                   ops, previewVars, ui>>

\* ---------------------------------------------------------- preview jobs
\* the operations of a session with previews, and the workers it queues
MaxPreviewOps == 4
MaxJobs == 3
\* AppConfig.MAX_PREVIEW_THREADS
MAX_PREVIEW_THREADS == 3

\* A worker as _prepare_clip_previews ("preview") or
\* _rebuild_effect_preview_for ("effect") hands it to the pool. clip is the
\* id of its clip object, captured the parameters it read from the clip, out
\* the file its command writes, events the signals it emitted, with "io" for
\* its first access to the file system.
Worker(kind, id, proxy_enabled) ==
    [kind |-> kind, clip |-> id, pc |-> "queued",
     proxy_enabled |-> proxy_enabled, captured |-> <<>>, out |-> NoPath,
     overlapped |-> FALSE, events |-> <<>>]

\* the place in timeline of the clip object id
ClipIndex(id) == CHOOSE i \in 1..Len(artifacts) : artifacts[i].id = id

\* a command writes content to path
WriteFile(d, path, content) ==
    [p \in DOMAIN d \cup {path} |-> IF p = path THEN content ELSE d[p]]

\* start and effective_dur of PreviewWorker.run: what the thumbnails and the
\* waveform of a clip are generated over
preview_window(c) ==
    LET dur == MediaItems[c.media].duration
        media_dur == IF dur = None THEN 0 ELSE dur
        end == IF c.end # None THEN c.end ELSE media_dur
    IN <<c.start,
         Max(TicksPerSecond \div 5,
             IF end > c.start THEN end - c.start ELSE media_dur)>>

\* what the command of EffectPreviewWorker.run bakes into effect_preview.mp4
effect_params(c) ==
    <<c.start, effect_preview_dur(c),
      IF c.lut # "none" /\ c.lut \in LutFiles THEN c.lut ELSE "none",
      c.title, speed_or_one(c.speed)>>

\* the -vf stages of EffectPreviewWorker.run
effect_vf(c) ==
    LET spd == IF c.speed = 0 THEN SpeedOne ELSE c.speed
    IN (IF c.lut # "" /\ c.lut # "none" /\ c.lut \in LutFiles
        THEN <<[stage |-> "lut3d", arg |-> c.lut]>> ELSE <<>>)
       \o (IF c.title # ""
           THEN <<[stage |-> "drawtext", arg |-> c.title]>> ELSE <<>>)
       \o (IF spd # SpeedOne
           THEN <<[stage |-> "setpts", arg |-> spd]>> ELSE <<>>)

\* the -af stages of EffectPreviewWorker.run
effect_af(c) ==
    LET spd == IF c.speed = 0 THEN SpeedOne ELSE c.speed
    IN IF spd # SpeedOne THEN atempo_chain(speed_as_tempo(spd)) ELSE <<>>

\* MainWindow._prepare_clip_previews: the pool after the call
prepare_clip_previews(js, art, proxy_enabled) ==
    IF art.preview_dir # None
           /\ (art.thumb_paths # NoPath \/ art.waveform_path # NoPath)
    THEN js
    ELSE Append(js, Worker("preview", art.id, proxy_enabled))

\* MainWindow._rebuild_effect_preview_for: the pool after the call
rebuild_effect_preview_for(js, art) ==
    Append(js, Worker("effect", art.id, FALSE))

\* the cache write of MainWindow._on_preview_ready, the slot of done
on_preview_ready(c, m, art) ==
    IF art.proxy_path # NoPath THEN [c EXCEPT !.proxy[m] = art.proxy_path]
    ELSE c

\* The pool starts the longest-waiting worker when a thread is free; run()
\* emits started.
worker_started(j) ==
    /\ jobs[j].pc = "queued"
    /\ \A k \in 1..(j - 1) : jobs[k].pc # "queued"
    /\ Cardinality({k \in 1..Len(jobs) :
                       jobs[k].pc \in {"started", "generating", "running"}})
           < MAX_PREVIEW_THREADS
    /\ jobs' = [jobs EXCEPT ![j].pc = "started",
                            ![j].events = Append(@, "started")]
    /\ UNCHANGED <<artifacts, caches, disk>>

\* PreviewWorker.run from the cache lookups to the creation of clip_dir:
\* done and return when the clip holds both artifacts; an OSError of
\* ensure_dir (mkdir_ok = FALSE) leaves run().
preview_lookup(j, mkdir_ok) ==
    LET job == jobs[j]
        ci == ClipIndex(job.clip)
        art == artifacts[ci]
        m == timeline[ci].media
        wave == IF caches.wave[m] # NoPath /\ caches.wave[m] \in DOMAIN disk
                THEN caches.wave[m] ELSE art.waveform_path
        thumbs == IF caches.thumbs[m] # NoPath /\ caches.thumbs[m] \in DOMAIN disk
                  THEN caches.thumbs[m] ELSE art.thumb_paths
        looked == [art EXCEPT !.waveform_path = wave, !.thumb_paths = thumbs]
    IN /\ job.kind = "preview"
       /\ job.pc = "started"
       /\ IF wave # NoPath /\ thumbs # NoPath
          THEN /\ artifacts' = [artifacts EXCEPT ![ci] = looked]
               /\ jobs' = [jobs EXCEPT ![j].pc = "returned",
                              ![j].events = job.events \o <<"io", "done">>]
               /\ caches' = on_preview_ready(caches, m, looked)
          ELSE IF mkdir_ok
          THEN /\ artifacts' = [artifacts EXCEPT
                                   ![ci] = [looked EXCEPT !.preview_dir = j]]
               /\ jobs' = [jobs EXCEPT ![j].pc = "generating",
                              ![j].events = Append(job.events, "io")]
               /\ UNCHANGED caches
          ELSE /\ artifacts' = [artifacts EXCEPT ![ci] = looked]
               /\ jobs' = [jobs EXCEPT ![j].pc = "raised",
                              ![j].events = Append(job.events, "io")]
               /\ UNCHANGED caches
       /\ UNCHANGED disk

\* PreviewWorker.run from the proxy to done; tool_ok tells whether the
\* commands of this run exit with code 0.
preview_generate(j, tool_ok) ==
    LET job == jobs[j]
        ci == ClipIndex(job.clip)
        art == artifacts[ci]
        c == timeline[ci]
        m == c.media
        video == MediaItems[m].type = "video"
        proxy_file == <<m, "proxy">>
        proxy_made == job.proxy_enabled /\ proxy_file \notin DOMAIN disk /\ tool_ok
        proxy_path == IF job.proxy_enabled /\ (proxy_file \in DOMAIN disk \/ tool_ok)
                      THEN proxy_file ELSE NoPath
        window == IF video THEN preview_window(c) ELSE <<0, 0>>
        gen_thumbs == art.thumb_paths = NoPath
        gen_wave == art.waveform_path = NoPath /\ video
        disk1 == IF proxy_made THEN WriteFile(disk, proxy_file, <<>>) ELSE disk
        disk2 == IF gen_thumbs /\ tool_ok
                 THEN WriteFile(disk1, <<j, "thumbs">>, window) ELSE disk1
        disk3 == IF gen_wave /\ tool_ok
                 THEN WriteFile(disk2, <<j, "wave">>, window) ELSE disk2
        made == [art EXCEPT
                    !.thumb_paths = IF gen_thumbs
                                    THEN (IF tool_ok THEN <<j, "thumbs">>
                                          ELSE NoPath)
                                    ELSE @,
                    !.waveform_path = IF gen_wave /\ tool_ok
                                      THEN <<j, "wave">> ELSE @,
                    !.proxy_path = IF proxy_path # NoPath THEN proxy_path
                                   ELSE @]
        cached == [caches EXCEPT
                      !.thumbs[m] = IF gen_thumbs /\ tool_ok
                                    THEN <<j, "thumbs">> ELSE @,
                      !.wave[m] = IF gen_wave /\ tool_ok
                                  THEN <<j, "wave">> ELSE @]
    IN /\ job.kind = "preview"
       /\ job.pc = "generating"
       /\ disk' = disk3
       /\ artifacts' = [artifacts EXCEPT ![ci] = made]
       /\ caches' = on_preview_ready(cached, m, made)
       /\ jobs' = [jobs EXCEPT ![j].pc = "returned",
                               ![j].events = Append(job.events, "done")]

\* EffectPreviewWorker.run up to the start of its command: the clip's
\* parameters are read here. A worker whose command starts while another
\* command writes the same file overlaps with it.
effect_launch(j, mkdir_ok) ==
    LET job == jobs[j]
        ci == ClipIndex(job.clip)
        art == artifacts[ci]
        clip_dir == IF art.preview_dir # None THEN art.preview_dir ELSE j
        out_path == <<clip_dir, "effect">>
        writers == {k \in 1..Len(jobs) :
                       jobs[k].pc = "running" /\ jobs[k].out = out_path}
    IN /\ job.kind = "effect"
       /\ job.pc = "started"
       /\ IF art.preview_dir = None /\ ~ mkdir_ok
          THEN /\ jobs' = [jobs EXCEPT ![j].pc = "returned",
                              ![j].events = job.events \o <<"io", "failed">>]
               /\ UNCHANGED artifacts
          ELSE /\ jobs' = [k \in 1..Len(jobs) |->
                              IF k = j
                              THEN [job EXCEPT
                                       !.pc = "running",
                                       !.captured = effect_params(timeline[ci]),
                                       !.out = out_path,
                                       !.overlapped = writers # {},
                                       !.events = Append(job.events, "io")]
                              ELSE IF k \in writers
                              THEN [jobs[k] EXCEPT !.overlapped = TRUE]
                              ELSE jobs[k]]
               /\ artifacts' = [artifacts EXCEPT ![ci].preview_dir = clip_dir]
       /\ UNCHANGED <<caches, disk>>

\* EffectPreviewWorker.run from the exit of its command: failed on a code
\* other than 0, else the clip gets the file and done is emitted. Two
\* commands that wrote the same file at the same time leave what this one
\* wrote or a mix of both (garbled).
effect_exit(j, tool_ok, garbled) ==
    LET job == jobs[j]
        ci == ClipIndex(job.clip)
        m == timeline[ci].media
        content == IF job.overlapped /\ garbled THEN <<"garbled">>
                   ELSE job.captured
        made == [artifacts[ci] EXCEPT !.effect_preview_path = job.out]
    IN /\ job.kind = "effect"
       /\ job.pc = "running"
       /\ IF tool_ok
          THEN /\ disk' = WriteFile(disk, job.out, content)
               /\ artifacts' = [artifacts EXCEPT ![ci] = made]
               /\ caches' = on_preview_ready(caches, m, made)
               /\ jobs' = [jobs EXCEPT ![j].pc = "returned",
                              ![j].events = Append(job.events, "done")]
          ELSE /\ jobs' = [jobs EXCEPT ![j].pc = "returned",
                              ![j].events = Append(job.events, "failed")]
               /\ UNCHANGED <<artifacts, caches, disk>>

\* ------------------------------------------------- slots of the signals
\* The slot the main window connects to a worker's signal, run for the clip
\* object id: _on_preview_started (started), _on_preview_ready (done) and
\* _on_effect_preview_failed (failed). processing holds the clips whose
\* _processing flag is set, progress is the visibility of preview_progress
\* and of preview_status_label, add_enabled the state of btn_add_to_tl.
on_preview_signal(u, sig, id) ==
    IF sig = "started"
    THEN [u EXCEPT !.processing = @ \cup {id}, !.progress = TRUE,
                   !.add_enabled = FALSE]
    ELSE IF sig = "done"
    THEN [u EXCEPT !.processing = @ \ {id}, !.progress = FALSE,
                   !.add_enabled = TRUE]
    ELSE [u EXCEPT !.progress = FALSE]

\* The event loop of the main window runs the slot of the next signal of
\* worker j that was not delivered yet (signals of one worker arrive in the
\* order of their emission).
signal_delivered(j) ==
    LET sigs == SelectSeq(jobs[j].events, LAMBDA e : e # "io")
        n == IF j \in DOMAIN ui.delivered THEN ui.delivered[j] ELSE 0
        counted == [k \in DOMAIN ui.delivered \cup {j} |->
                       IF k = j THEN n + 1 ELSE ui.delivered[k]]
    IN /\ n < Len(sigs)
       /\ ui' = [on_preview_signal(ui, sigs[n + 1], jobs[j].clip)
                    EXCEPT !.delivered = counted]
       /\ UNCHANGED <<editVars, project_bg_music, exportRun, duration_out,
                      tempo, ops, xfade, previewVars>>

\* ------------------------------------------- handlers that queue previews
\* the id of the k-th TimelineClip object a handler creates: one no clip of
\* the timeline and no worker of the pool holds
FreshId(k) ==
    LET held == {artifacts[i].id : i \in 1..Len(artifacts)}
                    \cup {jobs[j].clip : j \in 1..Len(jobs)} \cup {0}
    IN k + (CHOOSE x \in held : \A y \in held : y <= x)

\* _append_media_path_to_timeline with its call of _prepare_clip_previews;
\* proxy_enabled is the state of the proxy check box
add_with_previews(m, proxy_enabled) ==
    LET art == NoArtifacts(FreshId(1))
    IN /\ append_media_path_to_timeline(m)
       /\ artifacts' = Append(artifacts, art)
       /\ jobs' = prepare_clip_previews(jobs, art, proxy_enabled)
       /\ UNCHANGED <<caches, disk>>

\* duplicate_selected_clip with its call of _prepare_clip_previews; the new
\* item is repacked to the second place
duplicate_with_previews(i, proxy_enabled) ==
    LET art == NoArtifacts(FreshId(1))
    IN /\ Len(timeline) < MaxClips
       /\ duplicate_selected_clip(i)
       /\ artifacts' = <<artifacts[1], art>>
                           \o SubSeq(artifacts, 2, Len(artifacts))
       /\ jobs' = prepare_clip_previews(jobs, art, proxy_enabled)
       /\ UNCHANGED <<caches, disk>>

\* MainWindow.split_at_playhead from its first line: the early returns, the
\* two calls of _prepare_clip_previews, the replacement and the repack (the
\* two new items are at x = 0: they follow the first item, or lead). A
\* replacement is explored once the workers of the replaced clip have ended:
\* the fields of a clip that left the timeline are not kept.
split_pressed(proxy_enabled) ==
    LET target == clip_at_global_time(timeline, playhead_sec)
        left == NoArtifacts(FreshId(1))
        right == NoArtifacts(FreshId(2))
        others == SubSeq(artifacts, 1, target.idx - 1)
                      \o SubSeq(artifacts, target.idx + 1, Len(artifacts))
    IN IF split_accepts(timeline, playhead_sec)
       THEN /\ \A j \in 1..Len(jobs) :
                   jobs[j].clip = artifacts[target.idx].id
                       => jobs[j].pc \in {"returned", "raised"}
            /\ Len(timeline) < MaxClips
            /\ split_at_playhead
            /\ artifacts' = IF target.idx = 1 THEN <<left, right>> \o others
                            ELSE <<others[1], left, right>> \o Tail(others)
            /\ jobs' = prepare_clip_previews(
                           prepare_clip_previews(jobs, left, proxy_enabled),
                           right, proxy_enabled)
            /\ UNCHANGED <<caches, disk>>
       ELSE UNCHANGED <<timeline, playhead_sec, pending_seek_ms,
                        project_bg_music, previewVars>>

\* MainWindow.apply_title_to_clip, without its call of
\* _rebuild_effect_preview_for
apply_title_to_clip(i, text) ==
    /\ timeline' = [timeline EXCEPT ![i].title = text]
    /\ UNCHANGED <<playhead_sec, pending_seek_ms, project_bg_music>>

\* MainWindow.apply_lut_to_clip, without its call of
\* _rebuild_effect_preview_for
apply_lut_to_clip(i, lut) ==
    /\ timeline' = [timeline EXCEPT
                       ![i].lut = IF lut \in {"", "none"} THEN "none"
                                  ELSE IF lut \in LutFiles THEN lut
                                  ELSE "none"]
    /\ UNCHANGED <<playhead_sec, pending_seek_ms, project_bg_music>>

\* the call of _rebuild_effect_preview_for(clip) that ends apply_trim_to_clip,
\* apply_title_to_clip, apply_lut_to_clip and apply_speed_to_clip
edit_with_rebuild(A, i) ==
    /\ A
    /\ jobs' = rebuild_effect_preview_for(jobs, artifacts[i])
    /\ UNCHANGED <<artifacts, caches, disk>>

\* A drag of a trim handle: _on_visual_trim_changed, the callback of
\* mouseMoveEvent, sets the two trim fields and nothing else.
on_visual_trim_changed(A) ==
    /\ A
    /\ UNCHANGED previewVars

\* MainWindow._on_regenerate_proxy_clicked
on_regenerate_proxy_clicked(i) ==
    LET art == artifacts[i]
        m == timeline[i].media
        cleared == [art EXCEPT !.proxy_path = NoPath]
    IN /\ disk' = [p \in DOMAIN disk \ {art.proxy_path} |-> disk[p]]
       /\ artifacts' = [artifacts EXCEPT ![i] = cleared]
       /\ caches' = [caches EXCEPT !.proxy[m] = NoPath]
       /\ jobs' = prepare_clip_previews(jobs, cleared, TRUE)
       /\ UNCHANGED <<editVars, project_bg_music>>

\* The thumbnails and the waveform of a clip directory are deleted from the
\* temp root (by a cleaner of temporary files, or by the user).
files_removed(dir) ==
    /\ <<dir, "thumbs">> \in DOMAIN disk \/ <<dir, "wave">> \in DOMAIN disk
    /\ disk' = [p \in DOMAIN disk \ {<<dir, "thumbs">>, <<dir, "wave">>}
                   |-> disk[p]]
    /\ UNCHANGED <<editVars, project_bg_music, artifacts, jobs, caches>>

\* --------------------------------------------------------- specifications
\* An edit of a session of at most MaxOps edits.
Edit(A) ==
    /\ ops < MaxOps
    /\ A
    /\ ops' = ops + 1
    /\ UNCHANGED <<exportRun, duration_out, tempo, sideVars>>

\* An edit while no export message box is open.
IdleEdit(A) ==
    /\ export_result = "idle"
    /\ A
    /\ UNCHANGED <<exportRun, duration_out, tempo, ops, sideVars>>

AddClip == \E m \in MediaIds : Edit(append_media_path_to_timeline(m))
ApplyTrim ==
    \E i \in 1..Len(timeline), s \in TrimStartInputs, e \in TrimEndInputs :
        Edit(apply_trim_to_clip(i, s, e))
DragLeft ==
    \E i \in 1..Len(timeline), d \in DragDeltas : Edit(drag_trim_left(i, d))
DragRight ==
    \E i \in 1..Len(timeline), d \in DragDeltas : Edit(drag_trim_right(i, d))
ApplySpeed ==
    \E i \in 1..Len(timeline), v \in SpinSpeeds : Edit(apply_speed_to_clip(i, v))
Duplicate ==
    \E i \in 1..Len(timeline) :
        Edit(Len(timeline) < MaxClips /\ duplicate_selected_clip(i))
Remove == \E i \in 1..Len(timeline) : Edit(remove_selected_clip(i))
Split == Edit(Len(timeline) < MaxClips /\ split_at_playhead)
Scrub == \E sec \in PlayheadInputs : Edit(on_scrubbed(sec))
Load ==
    \E records \in SeqsUpTo(LoadRecords, MaxLoad), bg \in MusicInputs :
        Edit(load_project(records, bg))

\* The editing session without project files.
NextSession ==
    \/ AddClip
    \/ ApplyTrim
    \/ DragLeft
    \/ DragRight
    \/ ApplySpeed
    \/ Duplicate
    \/ Remove
    \/ Split
    \/ Scrub

SpecSession == Init /\ [][NextSession]_vars

\* The editing session.
Next ==
    \/ NextSession
    \/ Load

Spec == Init /\ [][Next]_vars

\* Adding clips and trimming them.
NextTrim ==
    \/ AddClip
    \/ ApplyTrim
    \/ DragLeft
    \/ DragRight

SpecTrim == Init /\ [][NextTrim]_vars

\* The playhead on a timeline that does not change: clicks on the ruler and
\* jumps to the start of a clip.
NextLocate ==
    \/ \E sec \in PlayheadInputs : IdleEdit(on_scrubbed(sec))
    \/ \E i \in 1..Len(timeline) :
           IdleEdit(seek_to_start_of_selected_clip(i))

SpecLocate == InitLocate /\ [][NextLocate]_vars

\* Structural edits of timelines of up to MaxLocateClips clips.
NextOrder ==
    \/ \E sec \in PlayheadInputs : IdleEdit(on_scrubbed(sec))
    \/ \E i \in 1..Len(timeline) :
           IdleEdit(Len(timeline) <= MaxLocateClips
                        /\ duplicate_selected_clip(i))
    \/ IdleEdit(Len(timeline) <= MaxLocateClips /\ split_at_playhead)

SpecOrder == InitLocate /\ [][NextOrder]_vars

\* Exports of a timeline that does not change.
NextAssembly ==
    \/ \E env \in ExportEnvs(timeline, project_bg_music) :
           export_project(env) /\ UNCHANGED <<duration_out, tempo, ops, sideVars>>
    \/ export_dismissed /\ UNCHANGED <<duration_out, tempo, ops, sideVars>>

SpecAssembly == InitLocate /\ [][NextAssembly]_vars

\* Calls of duration_effective.
NextDuration == call_duration_effective

SpecDuration == InitDuration /\ [][NextDuration]_vars

\* Calls of atempo_chain; a call that was entered keeps running.
NextTempo ==
    \/ \E v \in TempoInputs : atempo_call(v)
    \/ atempo_iterate
    \/ atempo_return

SpecTempo == Init /\ [][NextTempo]_vars /\ WF_vars(atempo_iterate)

\* Composing a timeline and exporting it.
NextExport ==
    \/ \E m \in MediaIds : IdleEdit(append_media_path_to_timeline(m))
    \/ \E i \in 1..Len(timeline), t \in TransitionInputs :
           IdleEdit(set_transition_for_selected(i, t))
    \/ \E i \in 1..Len(timeline), v \in ExportSpeeds :
           IdleEdit(apply_speed_to_clip(i, v))
    \/ \E path \in MusicInputs \ {""} : IdleEdit(choose_bg_music(path))
    \/ \E env \in ExportEnvs(timeline, project_bg_music) :
           export_project(env) /\ UNCHANGED <<duration_out, tempo, ops, sideVars>>
    \/ export_dismissed /\ UNCHANGED <<duration_out, tempo, ops, sideVars>>

SpecExport == Init /\ [][NextExport]_vars

\* A session in which the handlers queue preview jobs and the pool runs them.
\* An operation of the user or on the temp root:
Gui(A) ==
    /\ ops < MaxPreviewOps
    /\ A
    /\ Len(jobs') <= MaxJobs
    /\ ops' = ops + 1
    /\ UNCHANGED <<exportRun, duration_out, tempo, xfade, ui>>

\* A step of a worker thread of the pool:
Pool(A) ==
    /\ A
    /\ UNCHANGED <<editVars, project_bg_music, exportRun, duration_out, tempo,
                   ops, xfade, ui>>

NextPreview ==
    \/ \E m \in MediaIds, pe \in BOOLEAN : Gui(add_with_previews(m, pe))
    \/ \E i \in 1..Len(timeline), pe \in BOOLEAN :
           Gui(duplicate_with_previews(i, pe))
    \/ \E i \in 1..Len(timeline) :
           Gui(edit_with_rebuild(apply_trim_to_clip(i, 2, None), i))
    \/ \E i \in 1..Len(timeline) :
           Gui(edit_with_rebuild(apply_title_to_clip(i, "Title"), i))
    \/ \E i \in 1..Len(timeline), lut \in LutFiles :
           Gui(edit_with_rebuild(apply_lut_to_clip(i, lut), i))
    \/ \E i \in 1..Len(timeline), v \in ExportSpeeds :
           Gui(edit_with_rebuild(apply_speed_to_clip(i, v), i))
    \/ \E i \in 1..Len(timeline) :
           Gui(on_visual_trim_changed(drag_trim_left(i, 3)))
    \/ \E i \in 1..Len(timeline) :
           Gui(on_visual_trim_changed(drag_trim_right(i, 0 - 3)))
    \/ \E i \in 1..Len(timeline) : Gui(on_regenerate_proxy_clicked(i))
    \/ \E dir \in 1..Len(jobs) : Gui(files_removed(dir))
    \/ \E j \in 1..Len(jobs) : Pool(worker_started(j))
    \/ \E j \in 1..Len(jobs), ok \in BOOLEAN : Pool(preview_lookup(j, ok))
    \/ \E j \in 1..Len(jobs), ok \in BOOLEAN : Pool(preview_generate(j, ok))
    \/ \E j \in 1..Len(jobs), ok \in BOOLEAN : Pool(effect_launch(j, ok))
    \/ \E j \in 1..Len(jobs), ok \in BOOLEAN, garbled \in BOOLEAN :
           Pool(effect_exit(j, ok, garbled))

SpecPreview == Init /\ [][NextPreview]_vars

\* The Split button.
SplitPressed == Gui(split_pressed(FALSE))

\* Splits of clips whose previews are prepared by the pool.
NextSplit ==
    \/ \E m \in MediaIds : Gui(add_with_previews(m, FALSE))
    \/ \E sec \in PlayheadInputs :
           Gui(on_scrubbed(sec) /\ UNCHANGED previewVars)
    \/ SplitPressed
    \/ \E j \in 1..Len(jobs) : Pool(worker_started(j))
    \/ \E j \in 1..Len(jobs), ok \in BOOLEAN : Pool(preview_lookup(j, ok))
    \/ \E j \in 1..Len(jobs), ok \in BOOLEAN : Pool(preview_generate(j, ok))

SpecSplit == Init /\ [][NextSplit]_vars

\* Workers and the slots of their signals.
NextSignals ==
    \/ \E m \in MediaIds : Gui(add_with_previews(m, FALSE))
    \/ \E i \in 1..Len(timeline) :
           Gui(edit_with_rebuild(apply_title_to_clip(i, "Title"), i))
    \/ \E j \in 1..Len(jobs) : Pool(worker_started(j))
    \/ \E j \in 1..Len(jobs), ok \in BOOLEAN : Pool(preview_lookup(j, ok))
    \/ \E j \in 1..Len(jobs), ok \in BOOLEAN : Pool(preview_generate(j, ok))
    \/ \E j \in 1..Len(jobs), ok \in BOOLEAN : Pool(effect_launch(j, ok))
    \/ \E j \in 1..Len(jobs), ok \in BOOLEAN, garbled \in BOOLEAN :
           Pool(effect_exit(j, ok, garbled))
    \/ \E j \in 1..Len(jobs) : signal_delivered(j)

SpecSignals == Init /\ [][NextSignals]_vars

\* Calls of _concatenate_with_transitions on chains of rendered clips.
NextXfade ==
    \/ \E n \in 2..MaxChain : \E clips \in [1..n -> RenderedClips] :
           concatenate_call(clips)
    \/ concatenate_iterate
    \/ concatenate_return

SpecXfade == Init /\ [][NextXfade]_vars

\* ------------------------------------------------------------- properties
\* the end of the raw window of a clip: its end, or the duration of its
\* media when the end is unset (None when neither is known)
RawEnd(c) == IF c.end # None THEN c.end ELSE MediaItems[c.media].duration

\* The clip split_at_playhead replaces, and the offset of the playhead in it.
SplitTarget == clip_at_global_time(timeline, playhead_sec)

\* C1: whenever split_at_playhead replaces a clip, the two new clips
\* partition the raw window of the original: left.start = original.start,
\* left.end = right.start = the split point, right.end = original.end, and
\* the split point is strictly between original.start and the raw end of
\* the original, so that neither half has end <= start.
C1_SplitPartitionsRawWindow ==
    [][Split =>
        LET orig == timeline[SplitTarget.idx]
        IN \E j \in 1..(Len(timeline') - 1) :
              LET left == timeline'[j]
                  right == timeline'[j + 1]
              IN /\ left.media = orig.media /\ right.media = orig.media
                 /\ left.start = orig.start
                 /\ left.end # None /\ left.end = right.start
                 /\ right.end = orig.end
                 /\ orig.start < left.end
                 /\ (RawEnd(orig) # None => left.end < RawEnd(orig))
                 /\ left.end > left.start
                 /\ (right.end # None => right.end > right.start)]_vars

\* C2: the raw media time split_at_playhead cuts at is clip.start +
\* local_seconds * clip.speed, for every speed > 0: the timestamp
\* _on_scrubbed seeks a video to for the same playhead position.
C2_SplitPointScalesBySpeed ==
    [][Split =>
        LET clip == timeline[SplitTarget.idx]
            local == SplitTarget.local
        IN clip.speed > 0 =>
              \E j \in 1..(Len(timeline') - 1) :
                 /\ timeline'[j].end = timeline'[j + 1].start
                 /\ timeline'[j].start = clip.start
                 /\ timeline'[j].media = clip.media
                 /\ timeline'[j].end * SpeedDen
                        = clip.start * SpeedDen + local * clip.speed
                 /\ (MediaItems[clip.media].type = "video" =>
                        (timeline'[j].end * 1000) \div TicksPerSecond
                            = scrub_seek_ms(clip, local))]_vars

\* C3: in every state of an editing session, every clip whose end is set
\* has end >= start + MIN_CLIP_DURATION.
C3_EndAtLeastStartPlusMin ==
    \A i \in 1..Len(timeline) :
        timeline[i].end # None =>
            timeline[i].end >= timeline[i].start + MIN_CLIP_DURATION

\* C4: in every state reached by trim operations, a clip whose media
\* duration is known and whose end is set has end <= media.duration.
C4_EndWithinMediaDuration ==
    \A i \in 1..Len(timeline) :
        (MediaItems[timeline[i].media].duration # None /\ timeline[i].end # None)
            => timeline[i].end <= MediaItems[timeline[i].media].duration

\* C5: in every state reached by edits and project loads, every clip of
\* the timeline has speed > 0.
C5_SpeedPositive ==
    \A i \in 1..Len(timeline) : timeline[i].speed > 0

\* the length of source the export render of a clip reads: its -t, or the
\* rest of the media when it passes no -t (None when the media has no
\* known duration)
export_segment(c) ==
    IF render_t(c) # None THEN render_t(c)
    ELSE IF MediaItems[c.media].duration # None
         THEN MediaItems[c.media].duration - c.start
         ELSE None

\* C6: for every clip of a reachable timeline, the export render, the
\* effect preview render and the base of duration_effective use the same
\* raw segment length.
C6_ConsumersAgreeOnSegment ==
    \A i \in 1..Len(timeline) :
        /\ effect_preview_dur(timeline[i]) = duration_base(timeline[i])
        /\ (export_segment(timeline[i]) # None =>
               export_segment(timeline[i]) = duration_base(timeline[i]))

\* C7: duration_effective returns a value for every clip state, and the
\* value is max(0.2, base / s), where base is 5.0 when media.duration is
\* unknown and max(0.2, (end if set else media.duration) - start)
\* otherwise, and s is the speed when it is positive and 1.0 otherwise; so
\* the result is at least 0.2 and, for speed > 0, it is max(0.2,
\* duration_effective at speed 1.0 / speed).
C7_DurationEffectiveClosedForm ==
    duration_out # None =>
        LET c == timeline[1]
            dur == MediaItems[c.media].duration
            base == IF dur = None THEN DefaultBase
                    ELSE Max(DurationFloor,
                             (IF c.end # None THEN c.end ELSE dur) - c.start)
            s == IF c.speed > 0 THEN c.speed ELSE SpeedOne
            at_one == duration_effective([c EXCEPT !.speed = SpeedOne])
        IN /\ duration_out \in Nat
           /\ duration_out = Max(DurationFloor, (base * SpeedDen) \div s)
           /\ duration_out >= DurationFloor
           /\ (c.speed > 0 =>
                  duration_out
                      = Max(DurationFloor, (at_one * SpeedDen) \div c.speed))

\* duration_effective returned its floor for a trimmed video played at
\* double speed, whose scaled base is below the floor.
C7_FloorReached ==
    /\ duration_out = DurationFloor
    /\ MediaItems[timeline[1].media].duration # None
    /\ timeline[1].end # None
    /\ timeline[1].end - timeline[1].start > DurationFloor
    /\ timeline[1].end - timeline[1].start < 2 * DurationFloor
    /\ timeline[1].speed = 2 * SpeedOne

\* the number of stages of chain before the last that have ratio r
StagesOf(chain, r) ==
    Cardinality({i \in 1..(Len(chain) - 1) : chain[i] = r})

Abs(x) == IF x < 0 THEN 0 - x ELSE x

\* every stage of chain is a ratio of [0.5, 2.0]
StagesInRange(chain) ==
    /\ chain # <<>>
    /\ \A i \in 1..Len(chain) : chain[i] >= AtempoMin /\ chain[i] <= AtempoMax

\* every stage before the last is a 2.0 or a 0.5
PowerOfTwoStages(chain) ==
    \A i \in 1..(Len(chain) - 1) : chain[i] \in {AtempoMax, AtempoMin}

\* the product of the stages of chain is v: the last stage times the 2.0
\* stages is v times the inverses of the 0.5 stages
ProductIs(chain, v) ==
    /\ PowerOfTwoStages(chain)
    /\ chain[Len(chain)] * 2 ^ StagesOf(chain, AtempoMax)
           = v * 2 ^ StagesOf(chain, AtempoMin)

\* the product of the stages is v when the last stage is taken half a
\* printed decimal higher or lower
ProductWithinPrint(chain, v) ==
    /\ PowerOfTwoStages(chain)
    /\ 2 * Abs(chain[Len(chain)] * 2 ^ StagesOf(chain, AtempoMax)
                    - v * 2 ^ StagesOf(chain, AtempoMin))
           <= FmtUnit * 2 ^ StagesOf(chain, AtempoMax)

\* v divided by the 2.0 stages and multiplied by the inverses of the 0.5
\* stages has at most FormatDecimals decimals
LastStagePrints(chain, v) ==
    (v * 2 ^ StagesOf(chain, AtempoMin))
        % (FmtUnit * 2 ^ StagesOf(chain, AtempoMax)) = 0

\* atempo_chain(v) has built its chain, for a speed v > 0.
TempoDone == tempo.pc = "done" /\ tempo.v > 0

\* a call of atempo_chain with a speed v > 0 reaches its return
TempoTerminates == (tempo.pc = "loop_hi" /\ tempo.v > 0) ~> (tempo.pc = "done")

\* C8, as the specification states it: for any speed v > 0 atempo_chain
\* terminates, every stage it emits is a ratio of [0.5, 2.0], and the
\* product of the stages equals v.
C8_ProductEqualsSpeed ==
    /\ [](TempoDone =>
             StagesInRange(tempo.chain) /\ ProductIs(tempo.chain, tempo.v))
    /\ TempoTerminates

\* C8, amended: for any speed v > 0 atempo_chain terminates, every stage it
\* emits is a ratio of [0.5, 2.0], and the product of the stages equals v
\* up to the rounding of the last stage to six decimals: exactly when the
\* last stage has at most six decimals (every speed of the spin box),
\* within half a printed decimal of the last stage otherwise.
C8_ProductEqualsSpeedAsPrinted ==
    /\ [](TempoDone =>
             /\ StagesInRange(tempo.chain)
             /\ ProductWithinPrint(tempo.chain, tempo.v)
             /\ (LastStagePrints(tempo.chain, tempo.v)
                    => ProductIs(tempo.chain, tempo.v)))
    /\ TempoTerminates

\* atempo_chain(5.0) has built [2.0, 2.0, 1.25].
C8_ChainOfFive ==
    /\ TempoDone
    /\ tempo.v = E7(50000000)
    /\ tempo.chain = <<AtempoMax, AtempoMax, E7(12500000)>>

\* the commands among the steps of an export
ToolCommands(steps) == SelectSeq(steps, LAMBDA st : st.tool = "ffmpeg")

\* the timeline tl with the transition t on its last clip
WithLastTransition(tl, t) ==
    [tl EXCEPT ![Len(tl)] = [@ EXCEPT !.transition = t]]

\* C9: the commands an export issues do not depend on the transition of
\* the last clip: the export of the timeline that differs in that
\* transition alone, meeting the same failures, issues the same commands.
C9_LastTransitionIgnored ==
    export_result # "idle" =>
        \A t \in TransitionInputs :
            ToolCommands(cmds)
                = ToolCommands(export_steps(WithLastTransition(timeline, t),
                                            project_bg_music, export_env))

\* steps join clip i (from 1) to its successor by a transition of the style
JoinsWithStyle(steps, i, style) ==
    \E k \in 1..Len(steps) :
        /\ steps[k].kind = "xfade"
        /\ steps[k].style = style
        /\ steps[k].inputs[2] = clip_file(i)

\* steps join clip i (from 1) to its successor by plain concatenation
JoinsPlain(steps, i) ==
    \E k \in 1..Len(steps) :
        \/ steps[k].kind = "concat_filter" /\ steps[k].inputs[2] = clip_file(i)
        \/ /\ steps[k].kind = "concat_demux"
           /\ \E j \in 1..(Len(steps[k].inputs) - 1) :
                  /\ steps[k].inputs[j] = clip_file(i - 1)
                  /\ steps[k].inputs[j + 1] = clip_file(i)

\* C10: in every export that ran to its end, each clip but the last whose
\* transition is not none is joined to its successor by a transition step
\* of its style (crossfade giving fade), and each clip but the last whose
\* transition is none is joined to its successor by plain concatenation.
C10_TransitionsApplied ==
    export_result = "ok" =>
        \A i \in 1..(Len(timeline) - 1) :
            IF timeline[i].transition = "none"
            THEN JoinsPlain(cmds, i)
            ELSE JoinsWithStyle(cmds, i,
                     IF timeline[i].transition = "crossfade" THEN "fade"
                     ELSE timeline[i].transition)

\* C11: whenever an export fails, at whatever stage, no step of it has
\* written to the requested output path.
C11_FailedExportLeavesOutputAlone ==
    export_result = "failed" => output_file = "untouched"

\* C12: if a command issued by export returns a non-zero exit code (a
\* timeout included), export issues no further command and raises one
\* export failure whose message carries the stderr text of that command.
C12_FailureAbortsExport ==
    export_result # "idle" =>
        LET issued == ToolCommands(cmds)
            k == export_env.fail_at
        IN k \in 1..Len(issued) =>
              /\ k = Len(issued)
              /\ cmds[Len(cmds)] = issued[k]
              /\ export_result = "failed"
              /\ export_error.raised
              /\ export_error.stage = stage_error(issued[k].kind)
              /\ export_error.stderr = export_env.stderr

\* The render of the first of two clips timed out: nothing else was issued.
C12_FirstRenderTimedOut ==
    /\ export_result = "failed"
    /\ Len(timeline) = 2
    /\ export_env.fail_at = 1
    /\ export_env.stderr = "Command timeout"
    /\ Len(cmds) = 1
    /\ export_error.stderr = "Command timeout"

\* the stage of a step of an export: 1 render, 2 assembly, 3 music,
\* 4 finalization
StageOf(step) ==
    IF step.kind = "render" THEN 1
    ELSE IF step.kind \in {"concat_demux", "concat_filter", "xfade"} THEN 2
    ELSE IF step.kind \in {"music_volume", "music_mix"} THEN 3
    ELSE 4

\* the files of the export's temporary directory among the inputs of a step
PipelineInputs(step) ==
    {step.inputs[j] : j \in 1..Len(step.inputs)}
        \ {<<m, 0>> : m \in MusicInputs}

\* C13: in every export run the commands are ordered by stage: the renders
\* of all clips, in timeline order, then the assembly commands, then the
\* music attenuation and mix; the step that produces the output path is the
\* last; and no step starts before every step before it has succeeded.
C13_StagesInOrder ==
    export_result # "idle" =>
        /\ \A j, k \in 1..Len(cmds) :
               j < k => StageOf(cmds[j]) <= StageOf(cmds[k])
        /\ \A k \in 1..Len(cmds) :
               /\ cmds[k].kind = "render" =>
                      k <= Len(timeline) /\ cmds[k].out = clip_file(k - 1)
                          /\ cmds[k].src = timeline[k].media
               /\ StageOf(cmds[k]) > 1 =>
                      \A i \in 1..Len(timeline) : cmds[i].kind = "render"
               /\ StageOf(cmds[k]) > 2 =>
                      \/ Len(timeline) = 1
                      \/ \A i \in 1..Len(timeline) :
                             \E j \in 1..(k - 1) :
                                 /\ StageOf(cmds[j]) = 2
                                 /\ clip_file(i - 1) \in PipelineInputs(cmds[j])
               /\ \A f \in PipelineInputs(cmds[k]) :
                      \E j \in 1..(k - 1) : cmds[j].out = f
               /\ (cmds[k].out = <<"OUTPUT", 0>> /\ k < Len(cmds)) =>
                      cmds[k].tool = "os.replace" /\ ~ export_env.replace_ok
        /\ export_env.fail_at \notin 1..(Len(ToolCommands(cmds)) - 1)
        /\ (export_result = "ok" => cmds[Len(cmds)].out = <<"OUTPUT", 0>>)

\* An export of two clips with a crossfade and background music ran all
\* four stages: two renders, the transition step, the music commands.
C13_AllStagesRan ==
    /\ export_result = "ok"
    /\ Len(timeline) = 2
    /\ project_bg_music # ""
    /\ Len(cmds) = 5
    /\ cmds[3].kind = "xfade"
    /\ cmds[5].kind = "music_mix"

\* C14: a transition step that joins an accumulated stream of length A with
\* the next rendered clip of length B by a crossfade of duration D leaves a
\* stream of length A + B - D, at every step of a chain.
C14_TransitionStepOverlapsByD ==
    [][(xfade.pc = "loop"
        /\ transition_name(xfade.clips[xfade.i].transition) # "none")
       => xfade'.current = xfade.current + xfade.clips[xfade.i + 1].len
                              - CROSSFADE_DURATION]_vars

\* C15: when two effect-preview jobs of one clip were in flight and both have
\* finished with done, the clip's effect preview file holds the output of the
\* newer job (the parameters of the newer edit), under every interleaving.
C15_NewerEffectPreviewWins ==
    \A i \in 1..Len(artifacts) :
        LET E == {j \in 1..Len(jobs) : /\ jobs[j].kind = "effect"
                                       /\ jobs[j].clip = artifacts[i].id}
            newest == CHOOSE j \in E : \A k \in E : k <= j
            path == artifacts[i].effect_preview_path
        IN (Cardinality(E) >= 2
              /\ \A j \in E : /\ jobs[j].pc = "returned"
                              /\ jobs[j].events[Len(jobs[j].events)] = "done")
           => path \in DOMAIN disk /\ disk[path] = jobs[newest].captured

\* C16: every edit that changes a clip's trimmed window, title, LUT or speed
\* invalidates the clip's effect preview and queues a new effect-preview job
\* for that clip.
C16_EditRetriggersEffectPreview ==
    [][\A i \in 1..Len(timeline) :
          (/\ Len(timeline') = Len(timeline)
           /\ <<timeline'[i].start, timeline'[i].end, timeline'[i].title,
                timeline'[i].lut, timeline'[i].speed>>
                # <<timeline[i].start, timeline[i].end, timeline[i].title,
                    timeline[i].lut, timeline[i].speed>>)
          => /\ jobs' = Append(jobs, Worker("effect", artifacts[i].id, FALSE))
             /\ artifacts'[i].effect_preview_path = NoPath]_vars

\* C17: once a proxy has been generated for an asset, a clip of that asset
\* has proxy_path set to that proxy when its preview job completes (stated
\* for the jobs that were queued while the proxy check box was checked).
C17_ProxyAttachedToEveryClip ==
    [][\A j \in 1..Len(jobs) :
          LET ci == ClipIndex(jobs[j].clip)
              proxy_file == <<timeline[ci].media, "proxy">>
          IN (/\ jobs[j].kind = "preview"
              /\ jobs[j].proxy_enabled
              /\ jobs[j].pc # "returned"
              /\ jobs'[j].pc = "returned"
              /\ proxy_file \in DOMAIN disk)
             => artifacts'[ci].proxy_path = proxy_file]_vars

\* C18: when a preview job completes for a clip of a video, the thumbnails
\* and the waveform attached to the clip were generated over the clip's own
\* trim window.
C18_ArtifactsOverOwnWindow ==
    [][\A j \in 1..Len(jobs) :
          LET ci == ClipIndex(jobs[j].clip)
              c == timeline[ci]
              art == artifacts'[ci]
          IN (/\ jobs[j].kind = "preview"
              /\ jobs[j].pc # "returned"
              /\ jobs'[j].pc = "returned"
              /\ MediaItems[c.media].type = "video")
             => /\ art.thumb_paths \in DOMAIN disk'
                    => disk'[art.thumb_paths] = preview_window(c)
                /\ art.waveform_path \in DOMAIN disk'
                    => disk'[art.waveform_path] = preview_window(c)]_vars

\* C19: a lookup that finds a cache entry whose file is gone is a miss: the
\* preview job does not finish at the lookup, and it goes on with the clip's
\* artifact unset, so that it is generated again, also for a clip that held
\* artifact paths before.
C19_MissingCachedFileRegenerates ==
    [][\A j \in 1..Len(jobs) :
          LET ci == ClipIndex(jobs[j].clip)
              m == timeline[ci].media
              gone(path) == path # NoPath /\ path \notin DOMAIN disk
          IN (/\ jobs[j].kind = "preview"
              /\ jobs[j].pc = "started"
              /\ jobs'[j].pc # "started")
             => /\ gone(caches.thumbs[m])
                    => /\ jobs'[j].pc # "returned"
                       /\ jobs'[j].pc = "generating"
                              => artifacts'[ci].thumb_paths = NoPath
                /\ gone(caches.wave[m])
                    => /\ jobs'[j].pc # "returned"
                       /\ jobs'[j].pc = "generating"
                              => artifacts'[ci].waveform_path = NoPath]_vars

\* C20: a run of a preview job emits started once, before it touches the
\* file system or runs a tool, and then done once; a run of an effect-preview
\* job emits started once and then exactly one of done and failed.
C20_JobSignals ==
    \A j \in 1..Len(jobs) :
        LET e == jobs[j].events
            allowed == IF jobs[j].kind = "preview"
                       THEN {<<"started", "io", "done">>}
                       ELSE {<<"started", "io", "done">>,
                             <<"started", "io", "failed">>}
        IN IF jobs[j].pc \in {"returned", "raised"}
           THEN e \in allowed
           ELSE \E a \in allowed :
                    Len(e) <= Len(a) /\ e = SubSeq(a, 1, Len(e))

\* C21: when the failed signal of an effect-preview job is handled, the
\* in-progress indication set at the job's start is cleared as it is on done:
\* the clip's processing flag is cleared, the progress indicator is hidden
\* and the add-to-timeline button is enabled again.
C21_FailedClearsIndication ==
    [][\A j \in 1..Len(jobs) :
          LET n == IF j \in DOMAIN ui.delivered THEN ui.delivered[j] ELSE 0
              sigs == SelectSeq(jobs[j].events, LAMBDA e : e # "io")
          IN (/\ j \in DOMAIN ui'.delivered
              /\ ui'.delivered[j] = n + 1
              /\ sigs[n + 1] = "failed")
             => /\ jobs[j].clip \notin ui'.processing
                /\ ~ ui'.progress
                /\ ui'.add_enabled]_vars

\* C22: the two clips split_at_playhead puts on the timeline both carry the
\* title, the LUT and the track of the clip they replace; the transition of
\* the left one is none and the transition of the right one is that of the
\* replaced clip.
C22_SplitInheritsFields ==
    [][Split =>
        LET orig == timeline[SplitTarget.idx]
            cut == split_abs(orig, SplitTarget.local)
        IN \E j, k \in 1..Len(timeline') :
              LET left == timeline'[j]
                  right == timeline'[k]
              IN /\ j # k
                 /\ left.start = orig.start /\ left.end = cut
                 /\ right.start = cut /\ right.end = orig.end
                 /\ left.title = orig.title /\ right.title = orig.title
                 /\ left.lut = orig.lut /\ right.lut = orig.lut
                 /\ left.track = orig.track /\ right.track = orig.track
                 /\ left.transition = "none"
                 /\ right.transition = orig.transition]_vars

\* C23: a press of Split changes nothing when the playhead is past the end
\* of the last clip, or when its offset in the clip it is in is within 0.05 s
\* of the start or of the end of the clip's effective duration: the timeline
\* stays as it is and no preview job is queued.
C23_SplitNearEdgeIsNoOp ==
    [][(/\ SplitPressed
        /\ \/ SplitTarget.idx = 0
           \/ SplitTarget.local <= SplitEps
           \/ SplitTarget.local
                  >= duration_effective(timeline[SplitTarget.idx]) - SplitEps)
       => /\ timeline' = timeline
          /\ jobs' = jobs
          /\ artifacts' = artifacts]_vars

\* Split was pressed with the playhead 0.05 s before the end of the only
\* clip: three operations (add, scrub, split) left one clip and one job.
C23_PlayheadAtRightMargin ==
    /\ Len(timeline) = 1
    /\ SplitTarget.idx = 1
    /\ SplitTarget.local = duration_effective(timeline[1]) - SplitEps
    /\ ops = 3
    /\ Len(jobs) = 1

\* the sums of the effective durations of the first n clips of the timeline,
\* n from 0
PrefixSums ==
    LET s[k \in 0..Len(timeline)] ==
            IF k = 0 THEN 0 ELSE s[k - 1] + duration_effective(timeline[k])
    IN s

\* C24: for every query t with 0 <= t < T, T the total effective duration,
\* _clip_at_global_time returns the one clip i whose span [sum of the
\* durations before i, that sum + eff_i) holds t, with local_seconds = t minus
\* the sum before i, so 0 <= local_seconds < eff_i; for t >= T it returns
\* None.
C24_LocateBracketsQuery ==
    LET before == PrefixSums
        T == before[Len(timeline)]
    IN \A t \in 0..(T + 2) :
          LET r == clip_at_global_time(timeline, t)
          IN IF t < T
             THEN /\ r.idx \in 1..Len(timeline)
                  /\ before[r.idx - 1] <= t
                  /\ t < before[r.idx]
                  /\ r.local = t - before[r.idx - 1]
                  /\ 0 <= r.local
                  /\ r.local < duration_effective(timeline[r.idx])
                  /\ \A i \in 1..Len(timeline) :
                        (before[i - 1] <= t /\ t < before[i]) => i = r.idx
             ELSE r.idx = 0

\* The playhead was put exactly where the second clip starts, and is found
\* in the second clip.
C24_PlayheadOnSecondClipStart ==
    /\ Len(timeline) >= 2
    /\ playhead_sec = PrefixSums[1]
    /\ clip_at_global_time(timeline, playhead_sec) = [idx |-> 2, local |-> 0]

\* C25: _cumulative_start_of(c) is the sum of the effective durations of the
\* clips before c, 0 for the first clip and for a clip that is not on the
\* timeline, and _clip_at_global_time inverts it: for every clip c of the
\* timeline and every x with 0 <= x < duration_effective(c), the clip at
\* _cumulative_start_of(c) + x is c, at offset x.
C25_LocateInvertsCumulativeStart ==
    LET before == PrefixSums
    IN /\ cumulative_start_of(timeline, 0) = 0
       /\ \A i \in 1..Len(timeline) :
             LET start == cumulative_start_of(timeline, i)
             IN /\ start = before[i - 1]
                /\ \A x \in 0..(duration_effective(timeline[i]) - 1) :
                      clip_at_global_time(timeline, start + x)
                          = [idx |-> i, local |-> x]

\* The playhead is 0.05 s into the second of two clips.
C25_PlayheadInSecondClip ==
    /\ Len(timeline) >= 2
    /\ cumulative_start_of(timeline, 2) > 0
    /\ playhead_sec = cumulative_start_of(timeline, 2) + 1
    /\ clip_at_global_time(timeline, playhead_sec) = [idx |-> 2, local |-> 1]

\* C26: in an export that succeeds every rendered clip enters the assembly
\* once and in timeline order. Without transitions the one concat command
\* lists the render of clip i on line i of its manifest; with transitions
\* there are exactly n - 1 fold steps for n clips, and step k takes the
\* output of step k - 1 (the render of the first clip for k = 1) as its first
\* input and the render of clip k (counted from 0) as its second.
C26_EveryRenderAssembledOnce ==
    export_result = "ok" =>
        LET n == Len(timeline)
            renders == SelectSeq(cmds, LAMBDA c : c.kind = "render")
            folds == SelectSeq(cmds, LAMBDA c :
                                   c.kind \in {"concat_filter", "xfade"})
            lists == SelectSeq(cmds, LAMBDA c : c.kind = "concat_demux")
        IN /\ Len(renders) = n
           /\ \A i \in 1..n : renders[i] = cmds[i]
           /\ \A i, j \in 1..n : i # j => renders[i].out # renders[j].out
           /\ IF \E i \in 1..n : timeline[i].transition = "crossfade"
              THEN /\ lists = <<>>
                   /\ Len(folds) = n - 1
                   /\ \A k \in 1..(n - 1) :
                         /\ folds[k].inputs =
                                <<IF k = 1 THEN renders[1].out
                                  ELSE folds[k - 1].out,
                                  renders[k + 1].out>>
                         /\ \A j \in 1..(n - 1) :
                               j # k => folds[j].out # folds[k].out
                         /\ \A i \in 1..n : folds[k].out # renders[i].out
              ELSE /\ folds = <<>>
                   /\ Len(lists) = 1
                   /\ lists[1].inputs = [i \in 1..n |-> renders[i].out]

\* An export of three clips with a crossfade succeeded: two fold steps, the
\* second on the output of the first.
C26_ThreeClipsFolded ==
    /\ export_result = "ok"
    /\ Len(timeline) = 3
    /\ timeline[1].transition = "crossfade"
    /\ Len(cmds) >= 5
    /\ cmds[5].kind = "concat_filter"
    /\ cmds[5].inputs[1] = cmds[4].out

\* the names of the stages of a filter list, in order
StageNames(filters) == [k \in 1..Len(filters) |-> filters[k].stage]

\* C27: for every clip the effect-preview job and the export render build the
\* same visual stages in the same order and the same audio stages: the LUT
\* stage iff the lut is not none and its file exists, then the title stage iff
\* the title is not empty, then the speed stages (setpts, and the tempo chain
\* on the audio side) iff the speed differs from 1.0.
C27_PreviewAndRenderSameStages ==
    \A i \in 1..Len(timeline) :
        LET c == timeline[i]
        IN /\ effect_vf(c) = render_vf(c)
           /\ effect_af(c) = render_af(c)
           /\ StageNames(render_vf(c)) =
                  (IF c.lut # "none" /\ c.lut \in LutFiles
                   THEN <<"lut3d">> ELSE <<>>)
                  \o (IF c.title # "" THEN <<"drawtext">> ELSE <<>>)
                  \o (IF c.speed # SpeedOne THEN <<"setpts">> ELSE <<>>)
           /\ (render_af(c) # <<>>) <=> (c.speed # SpeedOne)

\* C28: structural edits keep the order of the clips. After split_at_playhead
\* on the clip at place k the timeline is the previous one with place k
\* replaced by the left and the right clip; after duplicate_selected_clip on
\* the clip at place k the copy is at place k + 1; all other clips keep their
\* previous relative order.
C28_StructuralEditsKeepOrder ==
    [][/\ split_at_playhead =>
            LET k == SplitTarget.idx
                orig == timeline[k]
            IN timeline' = SubSeq(timeline, 1, k - 1)
                             \o <<split_left(orig, SplitTarget.local),
                                  split_right(orig, SplitTarget.local)>>
                             \o SubSeq(timeline, k + 1, Len(timeline))
       /\ \A k \in 1..Len(timeline) :
             duplicate_selected_clip(k) =>
                 /\ Len(timeline') = Len(timeline) + 1
                 /\ timeline'[k + 1].media = timeline[k].media
                 /\ timeline'[k + 1].start = timeline[k].start
                 /\ timeline'[k + 1].end = timeline[k].end
                 /\ SubSeq(timeline', 1, k)
                        \o SubSeq(timeline', k + 2, Len(timeline'))
                        = timeline]_vars

\* C29: a split does not change the length of the timeline: the effective
\* durations of the left and the right clip add up to the effective duration
\* of the clip that was split, whatever its speed and trim window, so the
\* total of the timeline is the same after the split.
C29_SplitKeepsTotalLength ==
    [][split_at_playhead =>
          LET orig == timeline[SplitTarget.idx]
          IN /\ duration_effective(split_left(orig, SplitTarget.local))
                    + duration_effective(split_right(orig, SplitTarget.local))
                    = duration_effective(orig)
             /\ SumDur(timeline', Len(timeline'))
                    = SumDur(timeline, Len(timeline))]_vars

\* C30: in every render command and every effect-preview command the video
\* and the audio are retimed by the same ratio: there is a tempo chain iff
\* there is a setpts stage, and the product of the ratios of the chain is
\* the divisor of the setpts stage, for every speed a clip can hold.
C30_AudioRetimedAsVideo ==
    \A i \in 1..Len(timeline) :
        \A cmd \in {[vf |-> render_vf(timeline[i]),
                     af |-> render_af(timeline[i])],
                    [vf |-> effect_vf(timeline[i]),
                     af |-> effect_af(timeline[i])]} :
            LET scaling == SelectSeq(cmd.vf, LAMBDA f : f.stage = "setpts")
            IN /\ (cmd.af # <<>>) <=> (scaling # <<>>)
               /\ scaling # <<>> =>
                      /\ Len(scaling) = 1
                      /\ ProductIs(cmd.af, speed_as_tempo(scaling[1].arg))

====
